---------------------------- MODULE Spec2Model ----------------------------
(***************************************************************************)
(* The file-history pane of gitui (src/components/file_revlog.rs):         *)
(* FileRevlogComponent with its revision cursor (AsyncLog), window cache   *)
(* (ItemBatch), detail source (AsyncDiff) and detail view (DiffComponent). *)
(***************************************************************************)
EXTENDS Integers, Sequences, FiniteSets, TLC

(* ------------------------------ bounds -------------------------------- *)

\* number of file paths the host may open
NumPaths == 2
\* number of revisions in the history of the first file
MaxCommits == 2
\* largest height of the list region handed to draw()
MaxHeight == 5
\* capacity of the shared internal event queue
MaxQueue == 1
\* number of disruptions in one run: a backend call that fails, an open()
\* over an earlier session, a move of the repository's head (and, in the
\* runs of LiveSpec, a navigation key pressed before the user stops)
MaxDisruptions == 2
\* largest total of the revision stream in the navigation runs (NavSpec)
NavTotal == 4

(* ----------------------------- constants ------------------------------ *)

SLICE_SIZE == 1200

\* table_state.selected() = None
NoSel == -1
\* file_path = None
NoPath == 0
\* Option<CommitId> = None
NoCommit == 0

Paths == 1..NumPaths
\* heights of the list region: a terminal too small for a row, and a large one
Heights == {0, MaxHeight}

\* the number of revisions touching file p: file 1 has a long history
HistLen(p) == IF p = 1 THEN MaxCommits ELSE 1
\* the revisions touching file p, newest first (CommitId values)
History(p) == [i \in 1..HistLen(p) |-> 10 * p + i]
\* the file whose revision stream produced row (commit) c
PathOf(c) == c \div 10
Commits == UNION {{History(p)[i] : i \in 1..HistLen(p)} : p \in Paths}

Min(a, b) == IF a < b THEN a ELSE b
Max(a, b) == IF a > b THEN a ELSE b
\* usize::saturating_sub
SatSub(a, b) == IF a > b THEN a - b ELSE 0

\* the backend calls that may report a genuine failure
FailPoints == {"fetch", "count", "slice", "info", "count_total", "last", "request"}
\* the failures of one operation that differ in effect: every failure but
\* that of get_commits_info ("info") ends the operation, so a set of failing
\* calls acts as its first member, with "info" when that one comes before
FailCases ==
    {{}} \cup {{f} : f \in FailPoints}
         \cup {{"info", f} : f \in {"count_total", "last", "request"}}

\* DiffParams (options are always DiffOptions::default())
DiffParams(p, c) == [path |-> p, commit |-> c]
NoParams == DiffParams(NoPath, NoCommit)

(* ----------------------- RevisionCursor (AsyncLog) -------------------- *)

NoLog == [path |-> NoPath, count |-> 0, pending |-> FALSE, dirty |-> FALSE]

\* a fresh cursor: nothing materialised, the producer not started yet
AsyncLog_new(p) == [path |-> p, count |-> 0, pending |-> FALSE, dirty |-> TRUE]

\* fetch(): Pending while the producer runs; Started when it is (re)started,
\* which drops what was materialised; NoChange otherwise
AsyncLog_fetch(log) ==
    IF log.pending
    THEN [log |-> log, status |-> "Pending"]
    ELSE IF log.dirty
         THEN [log |-> [log EXCEPT !.count = 0, !.pending = TRUE, !.dirty = FALSE],
               status |-> "Started"]
         ELSE [log |-> log, status |-> "NoChange"]

AsyncLog_count(log) == log.count

\* get_slice(start, max_len): what is materialised from logical offset start
AsyncLog_get_slice(log, start, max_len) ==
    SubSeq(History(log.path), start + 1, Min(log.count, start + max_len))

(* -------------------------- WindowCache (ItemBatch) ------------------- *)

ItemBatch_default == [start |-> 0, rows |-> <<>>]

ItemBatch_set_items(start, commits) == [start |-> start, rows |-> commits]

\* needs_data(viewport_start, remote_total)
ItemBatch_needs_data(items, idx, total) ==
    \/ idx < items.start
    \/ idx >= items.start + Len(items.rows)
    \/ total # items.start + Len(items.rows)

\* iter().nth(n): the n-th cached row (0-based), over cached items only
ItemBatch_nth(items, n) ==
    IF n < Len(items.rows) THEN items.rows[n + 1] ELSE NoCommit

(* --------------------------- DetailSource (AsyncDiff) ----------------- *)

AsyncDiff_new == [last |-> NoParams, current |-> NoParams]

\* request(params): supersedes whatever is in flight
AsyncDiff_request(gd, params) == [gd EXCEPT !.current = params]

\* the worker completes the request in flight: it becomes last()
AsyncDiff_complete(gd) == [last |-> gd.current, current |-> NoParams]

(* --------------------------- DetailView (DiffComponent) --------------- *)

DiffComponent_new == [shown |-> NoParams, pending |-> FALSE, focused |-> FALSE]

DiffComponent_clear(d, pending) == [d EXCEPT !.shown = NoParams, !.pending = pending]

\* update(path, is_stage, diff): shows the diff computed for request params
DiffComponent_update(d, params) == [d EXCEPT !.shown = params, !.pending = FALSE]

DiffComponent_focus(d, focus) == [d EXCEPT !.focused = focus]

(* ------------------------- FileRevlogComponent ------------------------ *)

\* A pane value s is a record of the component's fields (visible, file_path,
\* git_log, selected, items, count_total, current_height, git_diff, diff,
\* queue) and of what the running operation has done so far: ret (its
\* result), logq (the queries it put to the cursor) and reqs (its calls of
\* git_diff.request), failed (a backend call of it reported a failure). The
\* state keeps the fields only.

UpdateDiffSignal == [kind |-> "Update", id |-> NoCommit]
InspectCommit(c) == [kind |-> "InspectCommit", id |-> c]

new ==
    [visible |-> FALSE, file_path |-> NoPath, git_log |-> NoLog,
     selected |-> NoSel, items |-> ItemBatch_default, count_total |-> 0,
     current_height |-> 0, git_diff |-> AsyncDiff_new,
     diff |-> DiffComponent_new, queue |-> <<>>,
     ret |-> "Ok", logq |-> 0, reqs |-> 0, failed |-> FALSE]

\* the early return of the ? operator
Err(s) == [s EXCEPT !.ret = "Err", !.failed = TRUE]

\* table_state.selected().unwrap_or(0)
Sel(s) == IF s.selected = NoSel THEN 0 ELSE s.selected

is_visible(s) == s.visible

hide(s) == [s EXCEPT !.visible = FALSE]

show(s) == [s EXCEPT !.visible = TRUE]

selected_commit(s) ==
    IF s.selected = NoSel THEN NoCommit ELSE ItemBatch_nth(s.items, s.selected)

can_focus_diff(s) == selected_commit(s) # NoCommit

update_diff(s, fails) ==
    IF ~is_visible(s) THEN s
    ELSE LET commit_id == selected_commit(s) IN
         IF commit_id # NoCommit /\ s.file_path # NoPath
         THEN LET diff_params == DiffParams(s.file_path, commit_id) IN
              IF "last" \in fails THEN Err(s)
              ELSE IF s.git_diff.last = diff_params
              THEN [s EXCEPT !.diff = DiffComponent_update(@, s.git_diff.last)]
              ELSE IF "request" \in fails THEN Err([s EXCEPT !.reqs = @ + 1])
              ELSE [s EXCEPT !.reqs = @ + 1,
                             !.git_diff = AsyncDiff_request(@, diff_params),
                             !.diff = DiffComponent_clear(@, TRUE)]
         ELSE [s EXCEPT !.diff = DiffComponent_clear(@, FALSE)]

\* fetch_commits that merges the slice into the cached rows
fetch_commits_merges(s, fails) ==
    IF s.git_log = NoLog THEN s
    ELSE LET start == Sel(s) IN
         IF "slice" \in fails
         THEN Err([s EXCEPT !.selected = NoSel, !.logq = @ + 1])
         ELSE LET slice == AsyncLog_get_slice(s.git_log, start, SLICE_SIZE)
                  s1 == [s EXCEPT
                           !.logq = @ + 1,
                           !.failed = @ \/ "info" \in fails,
                           !.items = IF "info" \in fails THEN @
                                     ELSE [@ EXCEPT !.rows = @ \o slice]]
              IN  IF "count_total" \in fails
                  THEN Err([s1 EXCEPT !.logq = @ + 1])
                  ELSE [s1 EXCEPT !.logq = @ + 1,
                                  !.count_total = AsyncLog_count(s.git_log)]

fetch_commits(s, fails) ==
    IF s.git_log = NoLog THEN s
    ELSE LET start == Sel(s) IN
         \* table_state is taken out of its cell here and put back only
         \* after get_slice: its early return leaves the default (None)
         IF "slice" \in fails
         THEN Err([s EXCEPT !.selected = NoSel, !.logq = @ + 1])
         ELSE LET slice == AsyncLog_get_slice(s.git_log, start, SLICE_SIZE)
                  s1 == [s EXCEPT
                           !.logq = @ + 1,
                           !.failed = @ \/ "info" \in fails,
                           !.items = IF "info" \in fails THEN @
                                     ELSE ItemBatch_set_items(start, slice)]
              IN  IF "count_total" \in fails
                  THEN Err([s1 EXCEPT !.logq = @ + 1])
                  ELSE [s1 EXCEPT !.logq = @ + 1,
                                  !.count_total = AsyncLog_count(s.git_log)]

update(s, fails) ==
    IF s.git_log = NoLog THEN s
    ELSE IF "fetch" \in fails THEN Err([s EXCEPT !.logq = @ + 1])
    ELSE LET f == AsyncLog_fetch(s.git_log)
             log_changed == f.status = "Started"
             s1 == [s EXCEPT !.git_log = f.log, !.logq = @ + 1]
             start == Sel(s1)
         IN  IF "count" \in fails THEN Err([s1 EXCEPT !.logq = @ + 1])
             ELSE LET s2 == [s1 EXCEPT !.logq = @ + 1]
                      s3 == IF \/ ItemBatch_needs_data(s2.items, start,
                                       AsyncLog_count(s2.git_log))
                               \/ log_changed
                            THEN fetch_commits(s2, fails) ELSE s2
                  IN  IF s3.ret = "Err" THEN s3 ELSE update_diff(s3, fails)

\* update_git that runs the full update() on a Diff notification too
update_git_always_updates(s, ev, fails) ==
    IF s.visible
    THEN CASE ev \in {"CommitFiles", "Log", "Diff"} -> update(s, fails)
           [] OTHER -> s
    ELSE s

\* update_git without the test of visible
update_git_unguarded(s, ev, fails) ==
    CASE ev \in {"CommitFiles", "Log"} -> update(s, fails)
      [] ev = "Diff" -> update_diff(s, fails)
      [] OTHER -> s

update_git(s, ev, fails) ==
    IF s.visible
    THEN CASE ev \in {"CommitFiles", "Log"} -> update(s, fails)
           [] ev = "Diff" -> update_diff(s, fails)
           [] OTHER -> s
    ELSE s

\* open that leaves the selection where it was
open_keeps_selection(s, path, fails) ==
    LET s1 == [s EXCEPT !.file_path = path, !.git_log = AsyncLog_new(path)]
        s2 == show(s1)
        s3 == [s2 EXCEPT !.diff = DiffComponent_clear(@, FALSE)]
    IN  update(s3, fails)

open(s, path, fails) ==
    LET s1 == [s EXCEPT !.file_path = path, !.git_log = AsyncLog_new(path),
                        !.selected = 0]
        s2 == show(s1)
        s3 == [s2 EXCEPT !.diff = DiffComponent_clear(@, FALSE)]
    IN  update(s3, fails)

get_max_selection(s, fails) ==
    IF s.git_log = NoLog THEN 0
    ELSE SatSub(IF "count" \in fails THEN 0 ELSE AsyncLog_count(s.git_log), 1)

\* new_selection with the page step taken as the whole height
new_selection_full_page(scroll_type, old_selection, max_selection, height) ==
    CASE scroll_type = "Up" -> SatSub(old_selection, 1)
      [] scroll_type = "Down" -> Min(old_selection + 1, max_selection)
      [] scroll_type = "Home" -> 0
      [] scroll_type = "End" -> max_selection
      [] scroll_type = "PageUp" -> SatSub(old_selection, height)
      [] scroll_type = "PageDown" -> Min(old_selection + height, max_selection)

\* the match on scroll_type; saturating_add cannot saturate on these sizes
new_selection(scroll_type, old_selection, max_selection, height) ==
    CASE scroll_type = "Up" -> SatSub(old_selection, 1)
      [] scroll_type = "Down" -> Min(old_selection + 1, max_selection)
      [] scroll_type = "Home" -> 0
      [] scroll_type = "End" -> max_selection
      [] scroll_type = "PageUp" -> SatSub(old_selection, SatSub(height, 2))
      [] scroll_type = "PageDown" ->
             Min(old_selection + SatSub(height, 2), max_selection)

\* move_selection that pushes the signal whether the index changed or not
move_selection_always_signals(s, scroll_type, fails) ==
    LET old_selection == Sel(s)
        max_selection == get_max_selection(s, fails)
        new_sel == new_selection(scroll_type, old_selection, max_selection,
                                 s.current_height)
        needs_update == new_sel # old_selection
        s1 == [s EXCEPT !.logq = IF s.git_log = NoLog THEN @ ELSE @ + 1,
                        !.failed = @ \/ (s.git_log # NoLog /\ "count" \in fails)]
    IN  [s1 EXCEPT !.queue = Append(@, UpdateDiffSignal),
                   !.selected = new_sel,
                   !.ret = IF needs_update THEN "true" ELSE "false"]

\* the new pane state; ret is the flag needs_update it returns
move_selection(s, scroll_type, fails) ==
    LET old_selection == Sel(s)
        max_selection == get_max_selection(s, fails)
        new_sel == new_selection(scroll_type, old_selection, max_selection,
                                 s.current_height)
        needs_update == new_sel # old_selection
        s1 == [s EXCEPT !.logq = IF s.git_log = NoLog THEN @ ELSE @ + 1,
                        !.failed = @ \/ (s.git_log # NoLog /\ "count" \in fails)]
    IN  [s1 EXCEPT !.queue = IF needs_update THEN Append(@, UpdateDiffSignal) ELSE @,
                   !.selected = new_sel,
                   !.ret = IF needs_update THEN "true" ELSE "false"]

Keys == {"exit_popup", "focus_right", "focus_left", "enter", "move_up",
         "move_down", "shift_up", "home", "shift_down", "end", "page_up",
         "page_down", "other"}
\* Event::Key(key) for key in Keys, and the events that are no key
Events == Keys \cup {"nonkey"}

ScrollType(key) ==
    CASE key = "move_up" -> "Up"
      [] key = "move_down" -> "Down"
      [] key \in {"shift_up", "home"} -> "Home"
      [] key \in {"shift_down", "end"} -> "End"
      [] key = "page_up" -> "PageUp"
      [] key = "page_down" -> "PageDown"

\* focus_left that closes the pane whoever holds focus
focus_left_closes(s) == hide([s EXCEPT !.diff = DiffComponent_focus(@, FALSE)])

\* the focus_left branch
focus_left(s) ==
    IF s.diff.focused
    THEN [s EXCEPT !.diff = DiffComponent_focus(@, FALSE)]
    ELSE hide(s)

\* the enter branch
enter(s) ==
    LET s1 == hide(s)
        id == selected_commit(s1)
    IN  IF id = NoCommit THEN [s1 EXCEPT !.ret = "NotConsumed"]
        ELSE [s1 EXCEPT !.queue = Append(@, InspectCommit(id)),
                        !.ret = "Consumed"]

\* event(): consumed is the answer of event_pump over the detail view
event(s, ev, consumed, fails) ==
    IF is_visible(s)
    THEN IF consumed THEN [s EXCEPT !.ret = "Consumed"]
         ELSE IF ev \notin Keys THEN [s EXCEPT !.ret = "Consumed"]
         ELSE IF ev = "exit_popup" THEN [hide(s) EXCEPT !.ret = "Consumed"]
         ELSE IF ev = "focus_right" /\ can_focus_diff(s)
              THEN [s EXCEPT !.diff = DiffComponent_focus(@, TRUE),
                             !.ret = "Consumed"]
         ELSE IF ev = "focus_left" THEN [focus_left(s) EXCEPT !.ret = "Consumed"]
         ELSE IF ev = "enter" THEN enter(s)
         ELSE IF ev \in {"move_up", "move_down", "shift_up", "home",
                         "shift_down", "end", "page_up", "page_down"}
              THEN [move_selection(s, ScrollType(ev), fails) EXCEPT
                        !.ret = "Consumed"]
         ELSE [s EXCEPT !.ret = "Consumed"]
    ELSE [s EXCEPT !.ret = "NotConsumed"]

\* draw(): draw_revlog records the size of the list region
draw(s, height) ==
    IF s.visible THEN [s EXCEPT !.current_height = height] ELSE s

(* ------------------------------- state -------------------------------- *)

VARIABLES
    visible, file_path, git_log, selected, items, count_total,
    current_height, git_diff, diff, queue,
    \* the number of disruptions so far (see MaxDisruptions)
    disruptions

vars == <<visible, file_path, git_log, selected, items, count_total,
          current_height, git_diff, diff, queue, disruptions>>

\* The value of the pane in the current state, as an operation finds it.
Pane ==
    [visible |-> visible, file_path |-> file_path, git_log |-> git_log,
     selected |-> selected, items |-> items, count_total |-> count_total,
     current_height |-> current_height, git_diff |-> git_diff,
     diff |-> diff, queue |-> queue,
     ret |-> "Ok", logq |-> 0, reqs |-> 0, failed |-> FALSE]

\* the step leaves the pane as s; a failure it met is a disruption, and so
\* are the extra ones the step itself stands for
Becomes(s, extra) ==
    /\ visible' = s.visible
    /\ file_path' = s.file_path
    /\ git_log' = s.git_log
    /\ selected' = s.selected
    /\ items' = s.items
    /\ count_total' = s.count_total
    /\ current_height' = s.current_height
    /\ git_diff' = s.git_diff
    /\ diff' = s.diff
    /\ queue' = s.queue
    /\ disruptions' = disruptions + extra + (IF s.failed THEN 1 ELSE 0)
    /\ disruptions' <= MaxDisruptions

Notifications == {"Log", "Diff", "CommitFiles", "Status"}

\* the failures that differ in effect on update_diff() alone
DiffFailCases == {{}, {"last"}, {"request"}}

NavKeys == {"move_up", "move_down", "shift_up", "home", "shift_down", "end",
            "page_up", "page_down"}

\* the answers event_pump may give: the detail view consumes an event only
\* while it holds focus
PumpCases(s) == IF s.visible /\ s.diff.focused THEN BOOLEAN ELSE {FALSE}

\* the host hands an InspectCommit signal over before it does anything else
InspectPending == queue # <<>> /\ Head(queue).kind = "InspectCommit"

\* FileRevlogComponent::new
Init ==
    /\ visible = new.visible
    /\ file_path = new.file_path
    /\ git_log = new.git_log
    /\ selected = new.selected
    /\ items = new.items
    /\ count_total = new.count_total
    /\ current_height = new.current_height
    /\ git_diff = new.git_diff
    /\ diff = new.diff
    /\ queue = new.queue
    /\ disruptions = 0

(* ------------------------- the host's operations ----------------------- *)

\* open(path); over an earlier session it is a disruption
Open(path, fails) ==
    /\ ~InspectPending
    /\ Becomes(open(Pane, path, fails), IF git_log # NoLog THEN 1 ELSE 0)

\* update(), on a tick of the host loop
Update(fails) ==
    /\ ~InspectPending
    /\ Becomes(update(Pane, fails), 0)

\* update_git(ev): a notification of the shared channel is delivered, one of
\* this pane's workers or one of another producer
UpdateGit(ev, fails) ==
    /\ ~InspectPending
    /\ Becomes(update_git(Pane, ev, fails), 0)

\* the host takes the 'diff needs refresh' signal off the queue: update_diff()
UpdateDiff(fails) ==
    /\ queue # <<>>
    /\ Head(queue) = UpdateDiffSignal
    /\ Becomes(update_diff([Pane EXCEPT !.queue = Tail(@)], fails), 0)

\* the host hands an InspectCommit signal to the commit-details component
Inspect ==
    /\ InspectPending
    /\ Becomes([Pane EXCEPT !.queue = Tail(@)], 0)

\* event(ev)
Event(ev, consumed, fails) ==
    /\ Len(queue) < MaxQueue
    /\ Becomes(event(Pane, ev, consumed, fails), 0)

\* draw(f, area)
Draw(height) ==
    /\ ~InspectPending
    /\ Becomes(draw(Pane, height), 0)

\* hide(), called by the host
Hide ==
    /\ ~InspectPending
    /\ Becomes(hide(Pane), 0)

(* ------------------------- the background workers ---------------------- *)

\* the log worker materialises one more revision
LogProgress ==
    /\ ~InspectPending
    /\ git_log.pending
    /\ git_log.count < HistLen(git_log.path)
    /\ Becomes([Pane EXCEPT !.git_log.count = @ + 1], 0)

\* the log worker reaches the end of the history
LogFinish ==
    /\ ~InspectPending
    /\ git_log.pending
    /\ Becomes([Pane EXCEPT !.git_log.pending = FALSE], 0)

\* the repository's head moves: the next fetch() restarts the stream
HeadChanged ==
    /\ ~InspectPending
    /\ git_log # NoLog
    /\ ~git_log.dirty
    /\ Becomes([Pane EXCEPT !.git_log.dirty = TRUE], 1)

\* the diff worker completes the request in flight
DiffComplete ==
    /\ ~InspectPending
    /\ git_diff.current # NoParams
    /\ Becomes([Pane EXCEPT !.git_diff = AsyncDiff_complete(@)], 0)

Next ==
    \/ \E path \in Paths, fails \in FailCases : Open(path, fails)
    \/ \E fails \in FailCases : Update(fails)
    \/ \E ev \in {"Log", "CommitFiles"}, fails \in FailCases : UpdateGit(ev, fails)
    \/ \E fails \in DiffFailCases : UpdateGit("Diff", fails)
    \/ UpdateGit("Status", {})
    \/ \E fails \in DiffFailCases : UpdateDiff(fails)
    \/ Inspect
    \/ \E ev \in Events \ NavKeys, consumed \in PumpCases(Pane) :
           Event(ev, consumed, {})
    \/ \E ev \in NavKeys, consumed \in PumpCases(Pane), fails \in {{}, {"count"}} :
           Event(ev, consumed, fails)
    \/ \E height \in Heights : Draw(height)
    \/ Hide
    \/ LogProgress
    \/ LogFinish
    \/ HeadChanged
    \/ DiffComplete

Spec == Init /\ [][Next]_vars

(* ------------------------- navigation on its own ----------------------- *)

\* A pane open on file 1 whose log worker has materialised total revisions
\* since open(), with the selection anywhere on them and the list drawn at
\* any height; update() has not run since, so the window cache is empty.
NavInit ==
    \E total \in 0..NavTotal, height \in 0..MaxHeight :
      \E index \in 0..SatSub(total, 1) :
        /\ visible = TRUE
        /\ file_path = 1
        /\ git_log = [path |-> 1, count |-> total, pending |-> TRUE,
                      dirty |-> FALSE]
        /\ selected = index
        /\ items = ItemBatch_default
        /\ count_total = 0
        /\ current_height = height
        /\ git_diff = AsyncDiff_new
        /\ diff = DiffComponent_new
        /\ queue = <<>>
        /\ disruptions = 0

NavNext ==
    \/ \E ev \in NavKeys, fails \in {{}, {"count"}} : Event(ev, FALSE, fails)
    \/ UpdateDiff({})

NavSpec == NavInit /\ [][NavNext]_vars

(* --------------------- a session left to settle ------------------------ *)

\* The pane right after open(file 1) on a new component. It stays visible;
\* the user presses navigation keys a bounded number of times and then
\* stops; no backend call fails and the head does not move.
LiveInit ==
    /\ visible = open(new, 1, {}).visible
    /\ file_path = open(new, 1, {}).file_path
    /\ git_log = open(new, 1, {}).git_log
    /\ selected = open(new, 1, {}).selected
    /\ items = open(new, 1, {}).items
    /\ count_total = open(new, 1, {}).count_total
    /\ current_height = open(new, 1, {}).current_height
    /\ git_diff = open(new, 1, {}).git_diff
    /\ diff = open(new, 1, {}).diff
    /\ queue = open(new, 1, {}).queue
    /\ disruptions = 0

\* a navigation key, of the bounded number the user presses
LiveKey(ev) ==
    /\ Len(queue) < MaxQueue
    /\ Becomes(event(Pane, ev, FALSE, {}), 1)

LiveNext ==
    \/ \E ev \in NavKeys : LiveKey(ev)
    \/ \E height \in Heights : Draw(height)
    \/ Update({})
    \/ UpdateGit("Diff", {})
    \/ UpdateDiff({})
    \/ LogProgress
    \/ LogFinish
    \/ DiffComplete

\* The host loop keeps ticking update() and emptying the queue, the workers
\* finish what they were asked, and every completion is notified.
LiveSpec ==
    /\ LiveInit /\ [][LiveNext]_vars
    /\ WF_vars(Update({}))
    /\ WF_vars(UpdateGit("Diff", {}))
    /\ WF_vars(UpdateDiff({}))
    /\ WF_vars(LogProgress)
    /\ WF_vars(LogFinish)
    /\ WF_vars(DiffComplete)

(* ------------------------------ properties ----------------------------- *)

\* the revision at logical position index of the stream of file path
RevisionAt(path, index) ==
    IF path # NoPath /\ index >= 0 /\ index < HistLen(path)
    THEN History(path)[index + 1] ELSE NoCommit

\* the cached row of logical position index: items[index - start]
CachedAt(its, index) ==
    IF index >= its.start /\ index < its.start + Len(its.rows)
    THEN its.rows[index - its.start + 1] ELSE NoCommit

\* C1: whenever the pane is visible and the detail view shows a ready diff,
\* the request that produced it is the one built from the current file path
\* and the revision at the current selection index. Stated where it is
\* weakest: at the states with no refresh signal waiting in the queue.
C1_ShownMatchesSelection ==
    (visible /\ diff.shown # NoParams /\ queue = <<>>)
        => diff.shown = DiffParams(file_path, RevisionAt(file_path, selected))

\* C2: while the pane is visible, the revision a detail request is built for
\* is the cached row of logical position selected (offset selected - start),
\* whatever the start of the window: a row whenever that position is cached,
\* and never the row of another position.
C2_SelectedCommitIsRowOfSelection ==
    visible => selected_commit(Pane) = CachedAt(items, selected)

\* C3: of two detail-refresh passes in a row that build the same request
\* (same selection, same path, same window), the second calls no request,
\* whether the request of the first is still in flight or has completed.
C3_SecondPassCallsNoRequest ==
    (visible /\ selected_commit(Pane) # NoCommit) =>
        LET first == update_diff(Pane, {})
            inflight == [first EXCEPT !.reqs = 0]
            completed == [inflight EXCEPT !.git_diff =
                              IF @.current # NoParams
                              THEN AsyncDiff_complete(@) ELSE @]
        IN  /\ update_diff(inflight, {}).reqs = 0
            /\ update_diff(completed, {}).reqs = 0

\* the reference result of a navigation command
Reference(scroll_type, i, m, h) ==
    CASE scroll_type = "Up" -> Max(i - 1, 0)
      [] scroll_type = "Down" -> Min(i + 1, m)
      [] scroll_type = "Home" -> 0
      [] scroll_type = "End" -> m
      [] scroll_type = "PageUp" -> Max(i - Max(h - 2, 0), 0)
      [] scroll_type = "PageDown" -> Min(i + Max(h - 2, 0), m)

\* C4: every navigation command takes the index i, the maximum index
\* m = max(total - 1, 0) and the height h to the reference result; StepDown
\* never passes m, StepUp never passes 0, and with total = 3 and h = 5
\* PageDown from 0 gives 2.
C4_NavigationFollowsReference ==
    [][\A ev \in NavKeys :
         Event(ev, FALSE, {}) =>
            LET i == Sel(Pane)
                m == Max(git_log.count - 1, 0)
                h == current_height
            IN  /\ selected' = Reference(ScrollType(ev), i, m, h)
                /\ ev = "move_down" => selected' <= m
                /\ ev = "move_up" => selected' >= 0
                /\ (ev = "page_down" /\ git_log.count = 3 /\ h = 5 /\ i = 0)
                       => selected' = 2]_vars

\* a navigation command has moved the selection from 0 to 2 of 3 revisions
\* on a list 5 rows high (the only such command is PageDown or End)
C4_Witness ==
    /\ visible /\ git_log.count = 3 /\ current_height = 5
    /\ selected = 2 /\ queue = <<UpdateDiffSignal>>

\* C5: in every state of an open session the selection index is at most
\* max(total - 1, 0), total being the current count of the cursor.
C5_SelectionWithinTotal ==
    (visible /\ git_log # NoLog)
        => Sel(Pane) <= Max(AsyncLog_count(git_log) - 1, 0)

\* C6: after open(path2) returns Ok on a pane that held a session on another
\* file, the window cache holds no row of that other file, whichever backend
\* call fails on the way.
C6_OpenDropsRowsOfOtherFile ==
    file_path # NoPath =>
        \A path2 \in Paths \ {file_path}, fails \in FailCases :
            LET s == open(Pane, path2, fails)
            IN  s.ret = "Ok" =>
                    \A k \in 1..Len(s.items.rows) :
                        PathOf(s.items.rows[k]) # file_path

\* C7: after open(path) returns Ok, from any state, the pane is visible, the
\* selection is 0, the file path is path and the cursor is a new one for
\* path, with nothing of the earlier cursor materialised.
C7_OpenResets ==
    \A path \in Paths, fails \in FailCases :
        LET s == open(Pane, path, fails)
        IN  s.ret = "Ok" =>
                /\ s.visible
                /\ s.selected = 0
                /\ s.file_path = path
                /\ s.git_log = AsyncLog_fetch(AsyncLog_new(path)).log

\* open(2) returns Ok on a pane that is visible on file 1 with the selection
\* moved off 0
C7_Witness ==
    /\ visible /\ file_path = 1 /\ selected > 0
    /\ open(Pane, 2, {}).ret = "Ok"
    /\ open(Pane, 2, {}).selected = 0

\* C8: with the detail view focused, a focus_left key it does not consume
\* unfocuses it and leaves the pane visible; the same key while the list
\* holds focus hides the pane; both are reported Consumed.
C8_FocusLeftTwice ==
    visible =>
        LET s == event(Pane, "focus_left", FALSE, {})
        IN  /\ s.ret = "Consumed"
            /\ diff.focused => (s.visible /\ ~s.diff.focused)
            /\ ~diff.focused => ~s.visible
            /\ diff.focused =>
                   LET again == event(s, "focus_left", FALSE, {})
                   IN  ~again.visible /\ again.ret = "Consumed"

\* the detail view holds focus on a visible pane: the first focus_left
\* leaves the pane visible, the second hides it
C8_Witness ==
    /\ visible /\ diff.focused
    /\ event(Pane, "focus_left", FALSE, {}).visible
    /\ ~event(event(Pane, "focus_left", FALSE, {}), "focus_left", FALSE, {}).visible

\* C9: while the pane is visible, event() returns Consumed for every event,
\* whatever the key, the focus and the contents of the list.
C9_VisiblePaneConsumesAll ==
    visible =>
        \A ev \in Events, consumed \in PumpCases(Pane), fails \in {{}, {"count"}} :
            event(Pane, ev, consumed, fails).ret = "Consumed"

\* C10: while the pane is not visible, event() returns NotConsumed for every
\* event, and update_git() leaves every field as it was, for every kind of
\* notification, and puts no query to the cursor and no request to the
\* detail source.
C10_HiddenPaneDoesNothing ==
    ~visible =>
        /\ \A ev \in Events :
               event(Pane, ev, FALSE, {}).ret = "NotConsumed"
        /\ \A ev \in Notifications, fails \in FailCases :
               /\ update_git(Pane, ev, fails) = Pane
               /\ update_git(Pane, ev, fails).logq = 0
               /\ update_git(Pane, ev, fails).reqs = 0

\* a hidden pane that keeps a session: a cursor with revisions materialised,
\* a cached window, a request in flight, the detail view focused
C10_Witness ==
    /\ ~visible /\ git_log # NoLog /\ git_log.count > 0
    /\ items.rows # <<>> /\ git_diff.current # NoParams /\ diff.focused


\* the revision the selection stands on, as far as the window cache holds
\* it: the cached row of logical position selected, none without a selection
SelectedRevision ==
    IF selected = NoSel THEN NoCommit ELSE CachedAt(items, selected)

\* C11: every failure a backend call reports during update() or open() (the
\* fetch-status poll, a count query, the slice query, the loading of the
\* revision summaries) makes update() or open() return an error.
C11_FailuresAreReturned ==
    \A fails \in FailCases :
        /\ update(Pane, fails).failed => update(Pane, fails).ret = "Err"
        /\ \A path \in Paths :
               open(Pane, path, fails).failed
                   => open(Pane, path, fails).ret = "Err"

\* C12: the enter key on a visible pane (not consumed by the detail view)
\* always hides the pane; it pushes exactly one InspectCommit signal, with
\* the identifier of the selected revision, if and only if there is a
\* selected revision, and pushes nothing otherwise.
C12_EnterHidesAndInspectsSelected ==
    visible =>
        LET s == event(Pane, "enter", FALSE, {})
        IN  /\ ~s.visible
            /\ s.queue = IF SelectedRevision # NoCommit
                         THEN Append(queue, InspectCommit(SelectedRevision))
                         ELSE queue


\* C13: update() is idempotent: of two successful update() calls in a row,
\* with nothing happening in the background between them, the second leaves
\* every field of the pane as the first left it (window start and rows,
\* count total, selection, detail view, visibility, focus, cursor, detail
\* source, queue).
C13_UpdateIsIdempotent ==
    LET first == update(Pane, {})
        second == update([first EXCEPT !.logq = 0, !.reqs = 0], {})
    IN  (first.ret = "Ok" /\ second.ret = "Ok") =>
            /\ second.items = first.items
            /\ second.count_total = first.count_total
            /\ second.selected = first.selected
            /\ second.diff = first.diff
            /\ second.visible = first.visible
            /\ second.git_log = first.git_log
            /\ second.git_diff = first.git_diff
            /\ second.file_path = first.file_path
            /\ second.queue = first.queue
            /\ second.current_height = first.current_height

\* an update() with work to do on a visible pane: it restarts the stream or
\* refreshes the window, and puts a request to the detail source
C13_Witness ==
    /\ visible /\ git_log # NoLog
    /\ update(Pane, {}).items # items
    /\ update(Pane, {}).git_diff # git_diff
    /\ update(Pane, {}).diff.pending
    /\ update(update(Pane, {}), {}).items = update(Pane, {}).items


\* C14: update(), update_git() and update_diff() leave the selection index
\* as it was, whether they return Ok or an error, whichever backend call
\* fails.
C14_UpdatesKeepSelection ==
    \A fails \in FailCases :
        /\ Sel(update(Pane, fails)) = Sel(Pane)
        /\ Sel(update_diff(Pane, fails)) = Sel(Pane)
        /\ \A ev \in Notifications :
               Sel(update_git(Pane, ev, fails)) = Sel(Pane)


\* C15: a visible update_diff() pass that builds a request other than the
\* one of the last completed computation (or with none completed) sets the
\* detail view to the empty pending state and calls request exactly once,
\* for that request, in the same pass; a pass with no selected revision sets
\* the detail view to empty and not pending and calls no request.
C15_RefreshRequestsOrClears ==
    visible =>
        LET s == update_diff(Pane, {})
            built == DiffParams(file_path, selected_commit(Pane))
        IN  /\ (selected_commit(Pane) # NoCommit /\ git_diff.last # built) =>
                   /\ s.diff.pending /\ s.diff.shown = NoParams
                   /\ s.reqs = 1 /\ s.git_diff.current = built
            /\ SelectedRevision = NoCommit =>
                   /\ ~s.diff.pending /\ s.diff.shown = NoParams
                   /\ s.reqs = 0 /\ s.git_diff = git_diff


\* C16: on a visible pane a Diff notification runs the detail refresh only:
\* it puts no query to the cursor and leaves the cursor, the window cache
\* and the count total as they were; a Log or CommitFiles notification runs
\* the full update(), which polls the cursor; any other kind of notification
\* changes nothing.
C16_DiffNotificationOnlyRefreshesDetail ==
    visible =>
        /\ \A fails \in FailCases :
               LET s == update_git(Pane, "Diff", fails)
               IN  /\ s = update_diff(Pane, fails)
                   /\ s.logq = 0
                   /\ s.git_log = git_log
                   /\ s.items = items
                   /\ s.count_total = count_total
        /\ \A ev \in {"Log", "CommitFiles"}, fails \in FailCases :
               /\ update_git(Pane, ev, fails) = update(Pane, fails)
               /\ git_log # NoLog => update_git(Pane, ev, fails).logq >= 1
        /\ update_git(Pane, "Status", {}) = Pane

\* a visible pane whose window is out of date: a full update() would
\* refresh it and the count total, a Diff notification puts a request to the
\* detail source and leaves both
C16_Witness ==
    /\ visible /\ git_log # NoLog
    /\ update(Pane, {}).items # items
    /\ update(Pane, {}).count_total # count_total
    /\ update_git(Pane, "Diff", {}).reqs = 1
    /\ update_git(Pane, "Diff", {}).items = items

\* C17: a navigation command pushes exactly one 'diff needs refresh' signal
\* and reports changed = true if and only if the new index differs from the
\* old one; with the index unchanged it pushes nothing and reports false.
C17_SignalIffIndexChanged ==
    \A key \in NavKeys, fails \in {{}, {"count"}} :
        LET s == move_selection(Pane, ScrollType(key), fails)
        IN  IF Sel(s) # Sel(Pane)
            THEN s.queue = Append(queue, UpdateDiffSignal) /\ s.ret = "true"
            ELSE s.queue = queue /\ s.ret = "false"

\* the selection stands on the last of several revisions: StepDown leaves
\* the index and pushes nothing, StepUp moves it and pushes one signal
C17_Witness ==
    /\ visible /\ git_log.count > 1 /\ selected = git_log.count - 1
    /\ move_selection(Pane, "Down", {}).queue = queue
    /\ move_selection(Pane, "Down", {}).ret = "false"
    /\ move_selection(Pane, "Up", {}).queue = Append(queue, UpdateDiffSignal)
    /\ move_selection(Pane, "Up", {}).ret = "true"

\* C18: the focus_right key (not consumed by the detail view) gives the
\* detail view focus only if there is a selected revision; with none (an
\* empty list, a selection outside the cached rows) it leaves focus,
\* visibility and selection as they were, and the event is Consumed.
C18_FocusRightNeedsSelectedRevision ==
    visible =>
        LET s == event(Pane, "focus_right", FALSE, {})
        IN  /\ s.ret = "Consumed"
            /\ SelectedRevision = NoCommit =>
                   /\ s.diff.focused = diff.focused
                   /\ s.visible = visible
                   /\ s.selected = selected


\* C19: in a session that stays visible, where the user stops navigating on
\* an existing revision, the workers complete what was requested and every
\* completion is notified, the detail view eventually shows the completed
\* diff of the selected revision, and keeps showing it.
C19_SelectedDiffEventuallyShown ==
    <>[](Sel(Pane) < AsyncLog_count(git_log) =>
            diff.shown = DiffParams(file_path, RevisionAt(file_path, Sel(Pane))))

\* C20: right after open() returns the detail view does not hold focus,
\* whatever the pane was before: new, hidden while the detail view was
\* focused, or still visible with the detail view focused.
C20_OpenLeavesFocusOnList ==
    \A path \in Paths, fails \in FailCases :
        ~open(Pane, path, fails).diff.focused

=============================================================================
